---- MODULE Spec2Model ----
(***************************************************************************)
(* Model of the CAG document chat: generate_response (the prompt fitting   *)
(* loop of src/app.py) and the Streamlit handlers around it.               *)
(*                                                                         *)
(* Text is a sequence of string tokens, so that str.startswith, "\n".join  *)
(* and the f-string templates are computed token by token.  A token counts *)
(* as one model token unless it stands for a long run of text.             *)
(***************************************************************************)
EXTENDS Integers, Sequences, FiniteSets, TLC

\* ------------------------------------------------------------------ bounds
MaxHistoryLen == 9     \* longest chat_history handed to generate_response
MaxTurns == 3          \* chat turns of one session
MaxAdds == 3           \* prompts added to the catalog

\* --------------------------------------------------------------- constants
CONTEXT_WINDOW_LIMIT == 1000000
MaxHistoryMessages == 8

\* ------------------------------------------------------------------- text
None == <<"<None>">>                 \* Python None where a text may stand
Truthy(x) == x # None /\ x # <<>>    \* bool(x) of an optional str

StartsWith(s, p) ==
  Len(s) >= Len(p) /\ SubSeq(s, 1, Len(p)) = p

ErrorMarker == <<"Error", ":">>

\* f"{n:,}": the digits of n in groups of three joined by ","
Pad3(k) ==
  IF k < 10 THEN <<"00", ToString(k)>>
  ELSE IF k < 100 THEN <<"0", ToString(k)>>
  ELSE <<ToString(k)>>

RECURSIVE FormatThousands(_)
FormatThousands(n) ==
  IF n < 1000 THEN <<ToString(n)>>
  ELSE FormatThousands(n \div 1000) \o <<",">> \o Pad3(n % 1000)

\* str.capitalize() of a role
Capitalize(role) ==
  CASE role = "user" -> "User"
    [] role = "assistant" -> "Assistant"
    [] OTHER -> role

\* chat_history[start:] with Python's rule for a negative start; -0 is 0
PySliceFrom(s, start) ==
  LET n == Len(s)
      i == IF start < 0
           THEN (IF n + start < 0 THEN 0 ELSE n + start)
           ELSE (IF start > n THEN n ELSE start)
  IN SubSeq(s, i + 1, n)

RecentHistory(chat_history, history_limit) ==
  PySliceFrom(chat_history, 0 - history_limit)

FormatMessage(msg) == <<Capitalize(msg.role), ": ">> \o msg.content

RECURSIVE JoinLines(_)
JoinLines(lines) ==
  IF lines = <<>> THEN <<>>
  ELSE IF Len(lines) = 1 THEN lines[1]
  ELSE lines[1] \o <<"\n">> \o JoinLines(Tail(lines))

FormatHistory(recent_history) ==
  JoinLines([i \in 1..Len(recent_history) |-> FormatMessage(recent_history[i])])

BuildFullPrompt(system_prompt, formatted_history, document_text, user_prompt) ==
  <<"System Prompt:\n---\n">> \o system_prompt
    \o <<"\n---\n\nChat History:\n---\n">> \o formatted_history
    \o <<"\n---\n\nDocument Content:\n---\n">> \o document_text
    \o <<"\n---\n\nUser Question: ">> \o user_prompt

\* model.count_tokens(text).total_tokens: additive over the text
TokenWeight(tok) ==
  CASE tok = "<doc-large>" -> 500000
    [] tok = "<doc-huge>" -> 1000001
    [] tok = "<long-text>" -> 250000
    [] OTHER -> 1

RECURSIVE CountTokens(_)
CountTokens(text) ==
  IF text = <<>> THEN 0
  ELSE TokenWeight(Head(text)) + CountTokens(Tail(text))

\* ------------------------------------------------------- returned strings
ErrApiKey == <<"Error", ":", " API Key not configured or invalid.">>
ErrModel == <<"Error", ":", " Model not initialized.">>
ErrNoDocument == <<"Error", ":", " No document content available.">>
ErrBlocked == <<"Error", ":", " Response blocked or invalid.">>
ErrFallback ==
  <<"Error", ":", " Failed to generate response after checking prompt size.">>

ErrTooLarge(prompt_token_count) ==
  <<"Error", ":", " Prompt exceeds token limit (">>
    \o FormatThousands(prompt_token_count) \o <<" / ">>
    \o FormatThousands(CONTEXT_WINDOW_LIMIT) \o <<") even without history.">>

ErrProcessing(history_limit, e) ==
  <<"Error", " during processing (history=", ToString(history_limit), "): ">> \o e

\* ------------------------------------------------------------- the inputs
DefaultSystemPrompt == <<"You are a helpful assistant analyzing the provided document.">>
Question == <<"What does the document say?">>
LongText == <<"<long-text>">>
DocSmall == <<"<doc-small>">>
DocLarge == <<"<doc-large>">>
DocHuge == <<"<doc-huge>">>
ExcText == <<"503 service unavailable">>

Keys == {"None", "", "key"}              \* current_api_key: None, "" or a key
KeyTruthy(k) == k # "None" /\ k # ""
Models == {"None", "GenerativeModel"}

UserMsg(content) == [role |-> "user", content |-> content]
AssistantMsg(content) == [role |-> "assistant", content |-> content]

\* messages a caller may hand over: a question, a long reply
FitMessages == {UserMsg(Question), AssistantMsg(LongText)}

Histories == UNION {[1..n -> FitMessages] : n \in 0..MaxHistoryLen}

FitDocuments == {None, <<>>, DocSmall, DocLarge, DocHuge}

\* what response.text yields: text (possibly empty, possibly text the model
\* itself begins with "Error:"), ValueError (blocked), or the call raises
ResponseTexts ==
  {<<"The document says so.">>, LongText, <<>>,
   <<"Error", ":", " the document does not say.">>}

GenOutcomes ==
  {[kind |-> "text", text |-> t] : t \in ResponseTexts}
    \cup {[kind |-> "blocked", text |-> <<>>], [kind |-> "raise", text |-> ExcText]}

\* prompt_utils.DEFAULT_PROMPTS
DEFAULT_PROMPTS ==
  <<[id |-> "default-general", name |-> <<"Default (General Assistant)">>,
     text |-> <<"You are a helpful assistant analyzing the provided document.",
                " Answer the user's questions based on the document content.">>],
    [id |-> "default-summary", name |-> <<"Default (Summarizer)">>,
     text |-> <<"You are an expert summarizer.">>]>>

\* ------------------------------------------------------------------ state
VARIABLES
  api_key_valid, current_api_key, model,     \* st.session_state / module globals
  messages, document_content, document_token_count,
  processed_file_id, uploaded_file_name, selected_system_prompt,
  pc,                                        \* position in generate_response
  user_prompt, document_text, chat_history, system_prompt,   \* its arguments
  history_limit, recent_history, full_prompt, prompt_token_count,
  result,                                    \* the value it returned
  gen_outcome,                               \* what the generation call did
  calls,                                     \* external calls of this run, in order
  iterations,                                \* loop iterations begun in this run
  turns, turn_start, last_turn,              \* chat turns: count, snapshots
  origin,                                    \* per message: the file id it was said under
  prompts,                                   \* the contents of prompts.json
  uuid_count                                 \* uuid4 values drawn so far

session == <<api_key_valid, current_api_key, model, messages, document_content,
             document_token_count, processed_file_id, uploaded_file_name,
             selected_system_prompt>>
args == <<user_prompt, document_text, chat_history, system_prompt>>
locals == <<history_limit, recent_history, full_prompt, prompt_token_count>>
observed == <<turns, turn_start, last_turn, origin>>
catalog == <<prompts, uuid_count>>
vars == <<session, pc, args, locals, result, gen_outcome, calls, iterations, observed,
          catalog>>

\* last_turn: the last finished turn of the conversation about this document
NoTurn == [before |-> <<>>, result |-> <<>>, after |-> <<>>, finished |-> FALSE]
NoOutcome == [kind |-> "none", text |-> <<>>]

CountCall(limit, prompt, ok, n) ==
  [op |-> "count_tokens", limit |-> limit, prompt |-> prompt, ok |-> ok, count |-> n]
GenerateCall(limit, prompt, ok) ==
  [op |-> "generate_content", limit |-> limit, prompt |-> prompt, ok |-> ok, count |-> 0]

\* ------------------------------------------------------ generate_response
\* lines 104-109: the three checks before the loop; None when all pass
Precheck_DocumentFirst(valid, key, mdl, doc) ==
  IF ~valid \/ ~KeyTruthy(key) THEN ErrApiKey
  ELSE IF ~Truthy(doc) THEN ErrNoDocument
  ELSE IF mdl = "None" THEN ErrModel
  ELSE None

Precheck(valid, key, mdl, doc) ==
  IF ~valid \/ ~KeyTruthy(key) THEN ErrApiKey
  ELSE IF mdl = "None" THEN ErrModel
  ELSE IF ~Truthy(doc) THEN ErrNoDocument
  ELSE None

InitialHistoryLimit == MaxHistoryMessages

GR_Enter ==
  /\ pc = "check"
  /\ LET err == Precheck(api_key_valid, current_api_key, model, document_text) IN
       IF err # None
       THEN /\ result' = err
            /\ pc' = "done"
            /\ UNCHANGED history_limit
       ELSE /\ history_limit' = InitialHistoryLimit
            /\ pc' = "loop"
            /\ UNCHANGED result
  /\ UNCHANGED <<session, args, recent_history, full_prompt, prompt_token_count,
                 gen_outcome, calls, iterations, observed>>
  /\ UNCHANGED catalog

\* line 113 and lines 116-125: the loop test, the window and the prompt
GR_Assemble ==
  /\ pc = "loop"
  /\ IF history_limit >= 0
     THEN /\ recent_history' = RecentHistory(chat_history, history_limit)
          /\ full_prompt' = BuildFullPrompt(system_prompt,
                              FormatHistory(RecentHistory(chat_history, history_limit)),
                              document_text, user_prompt)
          /\ iterations' = iterations + 1
          /\ pc' = "count"
          /\ UNCHANGED result
     ELSE /\ result' = ErrFallback
          /\ pc' = "done"
          /\ UNCHANGED <<recent_history, full_prompt, iterations>>
  /\ UNCHANGED <<session, args, history_limit, prompt_token_count, gen_outcome,
                 calls, observed>>
  /\ UNCHANGED catalog

Fits_Reversed(n) == n >= CONTEXT_WINDOW_LIMIT
Fits(n) == n <= CONTEXT_WINDOW_LIMIT

CanShrink(h) == h > 0

Shrink_ByOne(h) == h - 1
Shrink_Halve(h) == h \div 2
Shrink(h) == h - 2

\* lines 129-152 and 154-157: the token count and what follows from it
GR_CountTokens ==
  /\ pc = "count"
  /\ \/ LET n == CountTokens(full_prompt) IN
          /\ prompt_token_count' = n
          /\ calls' = Append(calls, CountCall(history_limit, full_prompt, TRUE, n))
          /\ IF Fits(n)
             THEN /\ pc' = "generate"
                  /\ UNCHANGED <<history_limit, result>>
             ELSE IF CanShrink(history_limit)
             THEN /\ history_limit' = Shrink(history_limit)
                  /\ pc' = "loop"
                  /\ UNCHANGED result
             ELSE /\ result' = ErrTooLarge(n)
                  /\ pc' = "done"
                  /\ UNCHANGED history_limit
     \/ /\ calls' = Append(calls, CountCall(history_limit, full_prompt, FALSE, 0))
        /\ result' = ErrProcessing(history_limit, ExcText)
        /\ pc' = "done"
        /\ UNCHANGED <<history_limit, prompt_token_count>>
  /\ UNCHANGED <<session, args, recent_history, full_prompt, gen_outcome,
                 iterations, observed>>
  /\ UNCHANGED catalog

\* lines 134-142 and 154-157: what generate_response returns for an outcome
GenerateResult(outcome, h) ==
  CASE outcome.kind = "text" -> outcome.text
    [] outcome.kind = "blocked" -> ErrBlocked
    [] OTHER -> ErrProcessing(h, outcome.text)

GenerateNext_Retry(outcome) == IF outcome.kind = "raise" THEN "loop" ELSE "done"
GenerateNext(outcome) == "done"

GR_Generate ==
  /\ pc = "generate"
  /\ \E outcome \in GenOutcomes :
       /\ gen_outcome' = outcome
       /\ calls' = Append(calls,
                     GenerateCall(history_limit, full_prompt, outcome.kind # "raise"))
       /\ result' = GenerateResult(outcome, history_limit)
       /\ pc' = GenerateNext(outcome)
  /\ UNCHANGED <<session, args, locals, iterations, observed>>
  /\ UNCHANGED catalog

\* -------------------------------------- generate_response on given inputs
InitFit ==
  /\ api_key_valid \in BOOLEAN
  /\ current_api_key \in Keys
  /\ model \in Models
  /\ chat_history \in Histories
  /\ document_text \in FitDocuments
  /\ user_prompt = Question
  /\ system_prompt = DefaultSystemPrompt
  /\ messages = chat_history
  /\ document_content = document_text
  /\ document_token_count = 0
  /\ processed_file_id = 0
  /\ uploaded_file_name = "None"
  /\ selected_system_prompt = system_prompt
  /\ pc = "check"
  /\ history_limit = 0
  /\ recent_history = <<>>
  /\ full_prompt = <<>>
  /\ prompt_token_count = 0
  /\ result = None
  /\ gen_outcome = NoOutcome
  /\ calls = <<>>
  /\ iterations = 0
  /\ turns = 0
  /\ turn_start = <<>>
  /\ last_turn = NoTurn
  /\ origin = [i \in 1..Len(chat_history) |-> 0]
  /\ prompts = DEFAULT_PROMPTS
  /\ uuid_count = 0

NextFit == GR_Enter \/ GR_Assemble \/ GR_CountTokens \/ GR_Generate

SpecFit == InitFit /\ [][NextFit]_vars

\* ------------------------------------------------------------ the session
\* validate_and_configure_key: genai.configure may raise
ValidateAndConfigureKey(key_to_test, configure_ok) ==
  KeyTruthy(key_to_test) /\ configure_ok

\* lines 58-92 and 324-331: a key is offered (local storage, .env or the key
\* form), validated, and the script then builds the model, which may fail
ConfigureKey ==
  /\ pc = "idle"
  /\ ~api_key_valid
  /\ \E k \in {"", "key"}, configure_ok \in BOOLEAN, model_ok \in BOOLEAN :
       IF ValidateAndConfigureKey(k, configure_ok)
       THEN /\ current_api_key' = k
            /\ api_key_valid' = model_ok
            /\ model' = IF model_ok THEN "GenerativeModel" ELSE "None"
       ELSE UNCHANGED <<api_key_valid, current_api_key, model>>
  /\ UNCHANGED <<messages, document_content, document_token_count, processed_file_id,
                 uploaded_file_name, selected_system_prompt, pc, args, locals, result,
                 gen_outcome, calls, iterations, observed>>
  /\ UNCHANGED catalog

\* lines 83-92: a later run of the script fails to build the model
ModelInitFails ==
  /\ pc = "idle"
  /\ api_key_valid
  /\ api_key_valid' = FALSE
  /\ model' = "None"
  /\ UNCHANGED <<current_api_key, messages, document_content, document_token_count,
                 processed_file_id, uploaded_file_name, selected_system_prompt, pc,
                 args, locals, result, gen_outcome, calls, iterations, observed>>
  /\ UNCHANGED catalog

\* lines 200-210: the "Clear Stored API Key" button
ClearStoredKey ==
  /\ pc = "idle"
  /\ api_key_valid
  /\ api_key_valid' = FALSE
  /\ current_api_key' = "None"
  /\ model' = "None"
  /\ UNCHANGED <<messages, document_content, document_token_count, processed_file_id,
                 uploaded_file_name, selected_system_prompt, pc, args, locals, result,
                 gen_outcome, calls, iterations, observed>>
  /\ UNCHANGED catalog

\* files a user may upload: what extract_text_from_file returns for each
\* (None when the type is unsupported or the extraction raises)
Files ==
  {[id |-> 1, name |-> "large.txt", text |-> DocLarge],
   [id |-> 2, name |-> "small.pdf", text |-> DocSmall],
   [id |-> 3, name |-> "huge.docx", text |-> DocHuge],
   [id |-> 4, name |-> "scan.pdf", text |-> None]}

\* lines 222-264: the file uploader holds a file
IsNewFile_Always(file_id, processed) == TRUE
\* line 224: uploaded_file.id != st.session_state.processed_file_id
IsNewFile(file_id, processed) == file_id # processed

UploadFile ==
  /\ pc = "idle"
  /\ api_key_valid
  /\ \E uploaded_file \in Files, count_ok \in BOOLEAN :
       IF IsNewFile(uploaded_file.id, processed_file_id)
       THEN /\ processed_file_id' = uploaded_file.id
            /\ messages' = <<>>
            /\ origin' = <<>>
            /\ LET extracted_text == uploaded_file.text
                   token_count == CountTokens(extracted_text) IN
                 IF extracted_text # None /\ model # "None" /\ count_ok
                    /\ ~(token_count > CONTEXT_WINDOW_LIMIT)
                 THEN /\ document_content' = extracted_text
                      /\ document_token_count' = token_count
                      /\ uploaded_file_name' = uploaded_file.name
                 ELSE /\ document_content' = None
                      /\ document_token_count' = 0
                      /\ uploaded_file_name' = "None"
            \* a new conversation begins: no turn of it has been made yet
            /\ turn_start' = <<>>
            /\ last_turn' = NoTurn
       ELSE UNCHANGED <<processed_file_id, messages, document_content,
                        document_token_count, uploaded_file_name, turn_start,
                        last_turn, origin>>
  /\ UNCHANGED <<api_key_valid, current_api_key, model, selected_system_prompt, pc,
                 args, locals, result, gen_outcome, calls, iterations, turns>>
  /\ UNCHANGED catalog

Questions == {Question, LongText}

\* lines 280-296: a question is submitted and generate_response is called
ChatSubmit ==
  /\ pc = "idle"
  /\ api_key_valid
  /\ document_content # None /\ document_token_count > 0
  /\ turns < MaxTurns
  /\ \E prompt \in Questions :
       /\ messages' = Append(messages, UserMsg(prompt))
       /\ origin' = Append(origin, processed_file_id)
       /\ turn_start' = messages
       /\ turns' = turns + 1
       /\ IF Truthy(document_content)
          THEN /\ pc' = "check"
               /\ user_prompt' = prompt
               /\ document_text' = document_content
               /\ chat_history' = Append(messages, UserMsg(prompt))
               /\ system_prompt' = selected_system_prompt
               /\ result' = None
               /\ gen_outcome' = NoOutcome
               /\ calls' = <<>>
               /\ iterations' = 0
          ELSE UNCHANGED <<pc, args, result, gen_outcome, calls, iterations>>
  /\ UNCHANGED <<api_key_valid, current_api_key, model, document_content,
                 document_token_count, processed_file_id, uploaded_file_name,
                 selected_system_prompt, locals, last_turn>>
  /\ UNCHANGED catalog

IsErrorResponse_OnlyBlocked(response) == response = ErrBlocked
\* line 299: response.startswith("Error:")
IsErrorResponse(response) == StartsWith(response, ErrorMarker)

\* lines 297-300: generate_response has returned
ChatFinish ==
  /\ pc = "done"
  /\ LET after == IF ~IsErrorResponse(result)
                  THEN Append(messages, AssistantMsg(result))
                  ELSE messages IN
       /\ messages' = after
       /\ origin' = IF Len(after) > Len(messages)
                    THEN Append(origin, processed_file_id) ELSE origin
       /\ last_turn' = [before |-> turn_start, result |-> result, after |-> after,
                        finished |-> TRUE]
  /\ pc' = "idle"
  \* the frame of generate_response is gone
  /\ user_prompt' = <<>> /\ document_text' = None /\ chat_history' = <<>>
  /\ history_limit' = 0 /\ recent_history' = <<>> /\ full_prompt' = <<>>
  /\ prompt_token_count' = 0 /\ result' = None /\ gen_outcome' = NoOutcome
  /\ calls' = <<>> /\ iterations' = 0
  /\ UNCHANGED <<api_key_valid, current_api_key, model, document_content,
                 document_token_count, processed_file_id, uploaded_file_name,
                 selected_system_prompt, system_prompt, turns, turn_start>>
  /\ UNCHANGED catalog

\* lines 16-38: the session state of a new session
Init ==
  /\ api_key_valid = FALSE
  /\ current_api_key = "None"
  /\ model = "None"
  /\ messages = <<>>
  /\ document_content = None
  /\ document_token_count = 0
  /\ processed_file_id = 0
  /\ uploaded_file_name = "None"
  /\ selected_system_prompt = DefaultSystemPrompt
  /\ pc = "idle"
  /\ user_prompt = <<>>
  /\ document_text = None
  /\ chat_history = <<>>
  /\ system_prompt = DefaultSystemPrompt
  /\ history_limit = 0
  /\ recent_history = <<>>
  /\ full_prompt = <<>>
  /\ prompt_token_count = 0
  /\ result = None
  /\ gen_outcome = NoOutcome
  /\ calls = <<>>
  /\ iterations = 0
  /\ turns = 0
  /\ turn_start = <<>>
  /\ last_turn = NoTurn
  /\ origin = <<>>
  /\ prompts = DEFAULT_PROMPTS
  /\ uuid_count = 0

Next ==
  \/ ConfigureKey \/ ModelInitFails \/ ClearStoredKey
  \/ UploadFile
  \/ ChatSubmit \/ GR_Enter \/ GR_Assemble \/ GR_CountTokens \/ GR_Generate \/ ChatFinish

Spec == Init /\ [][Next]_vars

\* ------------------------------------------------------ the prompt catalog
Whitespace == {" ", "\n", "\t"}

RECURSIVE LStrip(_)
LStrip(text) ==
  IF text # <<>> /\ Head(text) \in Whitespace THEN LStrip(Tail(text)) ELSE text

RECURSIVE RStrip(_)
RStrip(text) ==
  IF text # <<>> /\ text[Len(text)] \in Whitespace
  THEN RStrip(SubSeq(text, 1, Len(text) - 1)) ELSE text

\* str.strip()
Strip(text) == RStrip(LStrip(text))

LowerToken(tok) ==
  CASE tok = "Foo" -> "foo"
    [] tok = "Default (General Assistant)" -> "default (general assistant)"
    [] tok = "Default (Summarizer)" -> "default (summarizer)"
    [] OTHER -> tok

\* str.lower()
Lower(text) == [i \in 1..Len(text) |-> LowerToken(text[i])]

HasId(list, id) == \E i \in 1..Len(list) : list[i].id = id

\* load_prompts on an existing prompts.json
LoadPrompts(file) ==
  IF ~HasId(file, "default-general") THEN file \o DEFAULT_PROMPTS ELSE file

\* line 62: any(p['name'].lower() == name.lower() for p in prompts)
NameTaken(list, name) ==
  \E i \in 1..Len(list) : Lower(list[i].name) = Lower(name)

\* lines 66-70: the record add_prompt stores
NewPrompt(id, name, text) ==
  [id |-> id, name |-> Strip(name), text |-> Strip(text)]

\* the names and texts typed into the form of the Manage Prompts page
PromptNames ==
  {<<>>, <<" ">>, <<"Foo">>, <<"foo">>, <<"Foo", " ">>, <<"Bar">>,
   <<"default (summarizer)">>}
PromptTexts == {<<>>, <<"Be brief.">>, <<" ", "Be brief.">>}

\* add_prompt(name, text); save_prompts swallows a failure to write the file
AddPrompt ==
  /\ uuid_count < MaxAdds
  /\ \E name \in PromptNames, text \in PromptTexts, save_ok \in BOOLEAN :
       IF name = <<>> \/ text = <<>>
       THEN UNCHANGED catalog
       ELSE LET loaded == LoadPrompts(prompts) IN
              IF NameTaken(loaded, name)
              THEN UNCHANGED catalog
              ELSE /\ uuid_count' = uuid_count + 1
                   /\ prompts' =
                        IF save_ok
                        THEN Append(loaded, NewPrompt(ToString(uuid_count + 1), name, text))
                        ELSE prompts
  /\ UNCHANGED <<session, pc, args, locals, result, gen_outcome, calls, iterations,
                 observed>>

DefaultIds == {DEFAULT_PROMPTS[i].id : i \in 1..Len(DEFAULT_PROMPTS)}
PromptIds == DefaultIds \cup {ToString(i) : i \in 1..MaxAdds}

KeepOthers(list, id) == SelectSeq(list, LAMBDA q : q.id # id)

\* delete_prompt(prompt_id)
DeletePrompt ==
  /\ \E prompt_id \in PromptIds, save_ok \in BOOLEAN :
       LET loaded == LoadPrompts(prompts)
           prompts_to_keep == KeepOthers(loaded, prompt_id) IN
         IF prompt_id \in DefaultIds
         THEN UNCHANGED prompts
         ELSE IF Len(prompts_to_keep) < Len(loaded) /\ save_ok
         THEN prompts' = prompts_to_keep
         ELSE UNCHANGED prompts
  /\ UNCHANGED <<session, pc, args, locals, result, gen_outcome, calls, iterations,
                 observed, uuid_count>>

NextCatalog == AddPrompt \/ DeletePrompt

SpecCatalog == Init /\ [][NextCatalog]_vars

\* ===================================================================
\* Properties of generate_response (checked under SpecFit)
\* ===================================================================
IsCount(c) == c.op = "count_tokens"
IsGenerate(c) == c.op = "generate_content"
CountCalls == SelectSeq(calls, IsCount)
GenerateCalls == SelectSeq(calls, IsGenerate)
MaxIterations == MaxHistoryMessages \div 2 + 1
PrecheckPassed ==
  api_key_valid /\ KeyTruthy(current_api_key) /\ model # "None" /\ Truthy(document_text)

\* C1: a generation call is issued only for a prompt whose token count, as
\* measured by the immediately preceding count_tokens call on the same prompt
\* text, is at most CONTEXT_WINDOW_LIMIT.
C1_GenerationWithinBudget ==
  /\ \A i \in 1..Len(calls) :
       IsGenerate(calls[i]) =>
         /\ i > 1
         /\ IsCount(calls[i - 1])
         /\ calls[i - 1].ok
         /\ calls[i - 1].prompt = calls[i].prompt
         /\ calls[i - 1].count <= CONTEXT_WINDOW_LIMIT
  /\ pc = "generate" =>
       /\ calls # <<>>
       /\ calls[Len(calls)] = CountCall(history_limit, full_prompt, TRUE, prompt_token_count)
       /\ prompt_token_count <= CONTEXT_WINDOW_LIMIT

\* a generation call made after the window was shrunk, for a prompt that
\* fills most of the budget
C1_Witness ==
  /\ Len(calls) >= 3
  /\ IsGenerate(calls[Len(calls)])
  /\ calls[Len(calls) - 1].count > 750000
  /\ calls[1].count > CONTEXT_WINDOW_LIMIT

LastN(s, k) == SubSeq(s, Len(s) - k + 1, Len(s))
MinOf(a, b) == IF a <= b THEN a ELSE b

\* C2: at every iteration the history window in the prompt is the last
\* min(windowSize, len(history)) messages, in order: all of the history when
\* windowSize exceeds its length and no message when windowSize = 0.
C2_WindowIsLastMessages ==
  pc = "count" =>
    /\ recent_history = LastN(chat_history, MinOf(history_limit, Len(chat_history)))
    /\ full_prompt = BuildFullPrompt(system_prompt, FormatHistory(recent_history),
                                     document_text, user_prompt)

NoHistoryPrompt == BuildFullPrompt(system_prompt, <<>>, document_text, user_prompt)
IsTooLarge(r) == StartsWith(r, <<"Error", ":", " Prompt exceeds token limit (">>)
NoCallFailed ==
  /\ \A i \in 1..Len(calls) : calls[i].ok
  /\ gen_outcome.kind \in {"none", "text"}

\* C3: when no external call fails, the prompt-too-large failure is returned
\* if and only if the prompt with no history at all measures above the
\* budget, it carries that prompt's count, and otherwise a generation call is
\* issued.
C3_TooLargeIffNoHistoryOverBudget ==
  (pc = "done" /\ PrecheckPassed /\ NoCallFailed) =>
    LET n0 == CountTokens(NoHistoryPrompt) IN
      /\ IsTooLarge(result) <=> n0 > CONTEXT_WINDOW_LIMIT
      /\ n0 > CONTEXT_WINDOW_LIMIT => result = ErrTooLarge(n0)
      /\ n0 <= CONTEXT_WINDOW_LIMIT => Len(GenerateCalls) = 1

\* C4: the fit loop returns after at most maxHistoryMessages/2 + 1 iterations,
\* that is after at most 5 token-count calls, whatever the external calls do.
C4_LoopBounded ==
  /\ iterations <= MaxIterations
  /\ Len(CountCalls) <= MaxIterations
  /\ (pc = "loop" /\ history_limit >= 0) => iterations < MaxIterations
  /\ pc \in {"check", "loop", "count", "generate"} => ENABLED NextFit

\* the fifth iteration was run and the call returned
C4_Witness ==
  pc = "done" /\ iterations = MaxIterations /\ Len(CountCalls) = MaxIterations

\* C5: the window sizes measured in one call start at maxHistoryMessages,
\* go down by exactly 2 at each token overflow and not otherwise, are never
\* below 0, and none is visited twice.
C5_WindowSequence ==
  LET cc == CountCalls IN
    /\ \A i \in 1..Len(cc) :
         /\ cc[i].limit = MaxHistoryMessages - 2 * (i - 1)
         /\ cc[i].limit >= 0
         /\ i < Len(cc) => (cc[i].ok /\ cc[i].count > CONTEXT_WINDOW_LIMIT)
    /\ \A i, j \in 1..Len(cc) : i # j => cc[i].limit # cc[j].limit
    /\ (pc \in {"generate", "done"} /\ cc # <<>>) => history_limit = cc[Len(cc)].limit
    /\ (pc = "loop" /\ cc # <<>>) =>
         /\ history_limit = cc[Len(cc)].limit - 2
         /\ cc[Len(cc)].ok /\ cc[Len(cc)].count > CONTEXT_WINDOW_LIMIT
    /\ (pc = "loop" /\ cc = <<>>) => history_limit = MaxHistoryMessages

\* three overflows in a row, then a window that fits
C5_Witness ==
  /\ pc = "generate"
  /\ Len(CountCalls) = 4
  /\ history_limit = 2

\* C6: at most one generation call is made and it is the last external call:
\* after it, whatever its outcome, the call has returned, nothing more is
\* counted or generated and the window is not shrunk again.
C6_SingleFinalGeneration ==
  /\ Len(GenerateCalls) <= 1
  /\ \A i \in 1..Len(calls) :
       IsGenerate(calls[i]) =>
         /\ i = Len(calls)
         /\ pc = "done"
         /\ history_limit = calls[i].limit
         /\ result = GenerateResult(gen_outcome, calls[i].limit)

\* a generation call that raised, after which the call has returned
C6_Witness ==
  /\ pc = "done"
  /\ Len(GenerateCalls) = 1
  /\ gen_outcome.kind = "raise"

\* every value generate_response returns to report a failure
IsFailureValue(r) ==
  \/ r \in {ErrApiKey, ErrModel, ErrNoDocument, ErrBlocked, ErrFallback}
  \/ IsTooLarge(r)
  \/ StartsWith(r, <<"Error", " during processing (history=">>)

YieldsNoText(outcome) ==
  \/ outcome.kind \in {"blocked", "raise"}
  \/ outcome.kind = "text" /\ outcome.text = <<>>

\* C7: a generation call that is blocked, returns empty text or otherwise
\* yields no text is reported as a failure result, never as generated text.
C7_FailedGenerationReported ==
  (pc = "done" /\ YieldsNoText(gen_outcome)) => IsFailureValue(result)

\* C8: a missing or invalid credential, an uninitialised client or an empty
\* document each returns its own failure value, checked in that order,
\* without any token-count or generation call.
C8_PreconditionFailures ==
  /\ ErrApiKey # ErrModel /\ ErrApiKey # ErrNoDocument /\ ErrModel # ErrNoDocument
  /\ ~PrecheckPassed =>
       /\ pc \in {"check", "done"}
       /\ calls = <<>>
       /\ iterations = 0
  /\ (pc = "done" /\ ~PrecheckPassed) =>
       IF ~api_key_valid \/ ~KeyTruthy(current_api_key) THEN result = ErrApiKey
       ELSE IF model = "None" THEN result = ErrModel
       ELSE result = ErrNoDocument

\* the client is missing and the document is empty too: the client is reported
C8_Witness ==
  /\ pc = "done"
  /\ api_key_valid /\ KeyTruthy(current_api_key)
  /\ model = "None"
  /\ ~Truthy(document_text)
  /\ result = ErrModel

\* ===================================================================
\* Properties of the chat turn handler (checked under Spec)
\* ===================================================================
NoErrorReply(history) ==
  \A i \in 1..Len(history) :
    history[i].role = "assistant" => ~StartsWith(history[i].content, ErrorMarker)

\* C9: a response whose text starts with "Error:" is never appended to the
\* chat history, so no history passed into generate_response holds one.
C9_ErrorResponsesKeptOut ==
  /\ NoErrorReply(messages)
  /\ NoErrorReply(chat_history)
  /\ NoErrorReply(recent_history)
  /\ (last_turn.finished /\ StartsWith(last_turn.result, ErrorMarker)) =>
       \A i \in 1..Len(last_turn.after) :
         last_turn.after[i] # AssistantMsg(last_turn.result)

\* a turn ended with an "Error:" response and the next call is under way
C9_Witness ==
  /\ last_turn.finished
  /\ StartsWith(last_turn.result, ErrorMarker)
  /\ pc = "count"
  /\ Len(chat_history) >= 2
  /\ Len(recent_history) >= 2

InCall == pc \in {"check", "loop", "count", "generate", "done"}

\* C10: the chat history is not modified from the submission of a question
\* until generate_response returns, and is appended to only after a
\* successful result: a turn that fails leaves it as it was before the turn.
C10_FailedTurnLeavesHistory ==
  /\ InCall => messages = chat_history
  /\ (last_turn.finished /\ IsFailureValue(last_turn.result)) =>
       last_turn.after = last_turn.before

Truncated == Len(recent_history) < Len(chat_history)

\* C11: every history window obtained by truncating the history consists of
\* whole user+assistant pairs: it begins with a user message that is
\* immediately followed by its assistant reply.
C11_WindowOfWholePairs ==
  (pc = "count" /\ Truncated /\ recent_history # <<>>) =>
    /\ Len(recent_history) >= 2
    /\ recent_history[1].role = "user"
    /\ recent_history[2].role = "assistant"
    /\ Len(recent_history) % 2 = 0
    /\ \A i \in 1..Len(recent_history) :
         recent_history[i].role = (IF i % 2 = 1 THEN "user" ELSE "assistant")

\* C14: every failure value of generate_response, the one made from an
\* exception of an external call included, is kept out of the chat history
\* and so out of the history section of any later prompt.
C14_FailureValuesKeptOut ==
  /\ \A i \in 1..Len(messages) :
       messages[i].role = "assistant" => ~IsFailureValue(messages[i].content)
  /\ \A i \in 1..Len(recent_history) :
       recent_history[i].role = "assistant" => ~IsFailureValue(recent_history[i].content)

IsPrefix(s, t) == Len(s) <= Len(t) /\ SubSeq(t, 1, Len(s)) = s

\* C12: the chat history only grows between uploads and is emptied whenever a
\* file with a new id is handled, whether or not its extraction and token
\* check succeed; a run with the same file does not clear it; so every
\* message of a prompt's history was said under the current document.
C12_HistoryClearedOnNewFile ==
  [][/\ processed_file_id' # processed_file_id => messages' = <<>>
     /\ processed_file_id' = processed_file_id =>
          IsPrefix(messages, messages') /\ document_content' = document_content
     /\ Len(origin') = Len(messages')
     /\ \A i \in 1..Len(origin') : origin'[i] = processed_file_id'
     /\ InCall' =>
          /\ chat_history' = messages'
          /\ document_text' = document_content']_vars

\* a second conversation: turns were made under an earlier file, a new file
\* was handled, and the prompt now measured holds the new question alone
C12_Witness ==
  /\ turns >= 2
  /\ pc = "count"
  /\ chat_history = <<UserMsg(user_prompt)>>
  /\ processed_file_id = 2

\* ===================================================================
\* Properties of the prompt catalog (checked under SpecCatalog)
\* ===================================================================
\* C13: after any sequence of add_prompt and delete_prompt calls no two
\* prompts stored in the catalog have the same name.
C13_UniqueNames ==
  \A i, j \in 1..Len(prompts) : i # j => prompts[i].name # prompts[j].name

====
